---- MODULE Spec2Model ----
(***************************************************************************)
(* Verification model of the FreeboxOS dashboard core:                     *)
(*   - the reboot scheduler     (RebootSchedulerService)                   *)
(*   - the schedule route       (POST /api/system/reboot/schedule)         *)
(*   - the telemetry normalizer (normalizeSystemInfo)                      *)
(*   - the telemetry query      (GET /api/system)                          *)
(*   - the client stores        (useSystemStore, useConnectionStore)       *)
(*   - the WebSocket hook       (useConnectionWebSocket)                   *)
(* Strings whose characters the code inspects (the schedule's time) are    *)
(* sequences of one-character strings, so that split(':') and the cron     *)
(* field validation are computed, not assumed.                             *)
(***************************************************************************)
EXTENDS Integers, Sequences, FiniteSets, TLC

VARIABLES
    proc,       \* "running" | "down" | "failed": the server process / module import
    schedule,   \* RebootSchedulerService.schedule
    task,       \* RebootSchedulerService.task: 0 for null, else an index into active
    active,     \* node-cron's started and not yet stopped tasks (their expressions)
    file,       \* the content of .reboot_schedule.json
    last,       \* the last operation: its arguments and what the caller saw
    nin,        \* normalizer: the raw payload handed to normalizeSystemInfo
    nout,       \* normalizer: the successive results, nout[1] = normalize(nin), ...
    nthrew,     \* normalizer: whether the last application raised a TypeError
    reply,      \* GET /api/system: the last request's fetch outcomes and its response
    systemStore,      \* client: the state of useSystemStore
    connectionStore,  \* client: the state of useConnectionStore
    sysFetches,       \* client: the fetchSystemInfo calls awaiting their response
    event,            \* client: the last message or response a store handled
    hook,             \* client: one useConnectionWebSocket instance, its sockets and timers
    connFetches,      \* client: the fetchConnectionStatus calls awaiting their response
    serverSeq         \* server: how many connection readings it has published

vars == <<proc, schedule, task, active, file, last, nin, nout, nthrew, reply,
          systemStore, connectionStore, sysFetches, event, hook, connFetches, serverSeq>>
schedVars == <<proc, schedule, task, active, file, last>>
normVars == <<nin, nout, nthrew>>
routeVars == <<reply>>
storeVars == <<systemStore, connectionStore, sysFetches, event>>
hookVars == <<hook, connFetches, serverSeq>>
clientVars == <<storeVars, hookVars>>

(***************************************************************************)
(* Bounds of the model.                                                    *)
(***************************************************************************)
MaxDaysLen == 2     \* longest days array a request carries
MaxSensors == 2     \* longest sensors array of a raw payload
MaxApply == 2       \* how many times normalize is applied in a row
MaxMsgs == 2        \* most points a history receives when the payloads vary
MaxPoints == 62     \* most points a history receives when the payload is steady
MaxInFlight == 1    \* most fetches of one kind awaiting their response
MaxSockets == 3     \* most WebSockets one hook instance creates

(***************************************************************************)
(* RebootSchedule values.                                                  *)
(***************************************************************************)
Fields == {"enabled", "days", "time"}

\* A JSON string.
Str(text) == [kind |-> "string", text |-> text]
\* A JSON number where a string is expected (req.body is not validated).
NotAString == [kind |-> "number", text |-> "300"]
\* No value: the process is not running.
NoTime == [kind |-> "none", text |-> ""]

T0300 == Str("03:00")
T0400 == Str("04:00")
T2500 == Str("25:00")
TNoColon == Str("0300")
TStars == Str("*:*")

\* The characters of the strings the code takes apart.
Chars ==
    ("03:00" :> <<"0", "3", ":", "0", "0">>) @@
    ("04:00" :> <<"0", "4", ":", "0", "0">>) @@
    ("25:00" :> <<"2", "5", ":", "0", "0">>) @@
    ("0300" :> <<"0", "3", "0", "0">>) @@
    ("*:*" :> <<"*", ":", "*">>)

\* The time strings a request carries: two well-formed ones, an hour out of
\* range, a missing colon, and a string that is no time at all.
TimeStrings == {T0300, T0400, T2500, TNoColon, TStars}
\* What an unvalidated JSON body can carry as time.
TimeJson == TimeStrings \cup {NotAString}

\* The days arrays a request carries: none, or the first weekdays of the list
\* a user ticks (Monday, Wednesday, Friday, Sunday), MaxDaysLen of them or one
\* fewer.
DayList == <<1, 3, 5, 0>>
DaysInputs == {<<>>} \cup {SubSeq(DayList, 1, n) : n \in (MaxDaysLen - 1)..MaxDaysLen}

DEFAULT_SCHEDULE == [enabled |-> FALSE, days |-> <<>>, time |-> T0300]
NoSchedule == [enabled |-> FALSE, days |-> <<>>, time |-> NoTime]

\* An object literal with the keys D of r.
Restrict(r, D) == [f \in D |-> r[f]]

\* Partial<RebootSchedule>: any subset of the fields, each with a value of its type.
Partials(times) ==
    {Restrict([enabled |-> e, days |-> d, time |-> t], D) :
        e \in BOOLEAN, d \in DaysInputs, t \in times, D \in SUBSET Fields}
\* Bodies that respect the signature updateSchedule(Partial<RebootSchedule>).
TypedBodies == Partials(TimeStrings)
\* Bodies of the route: req.body is any JSON object.
JsonBodies == Partials(TimeJson)

\* { ...cur, ...p }: the own keys of p override those of cur.
SpreadOldWins(cur, p) ==
    [f \in (DOMAIN cur) \cup (DOMAIN p) |-> IF f \in DOMAIN cur THEN cur[f] ELSE p[f]]
Spread(cur, p) ==
    [f \in (DOMAIN cur) \cup (DOMAIN p) |-> IF f \in DOMAIN p THEN p[f] ELSE cur[f]]

(***************************************************************************)
(* Building and validating the cron expression.                            *)
(***************************************************************************)
Digits == {"0", "1", "2", "3", "4", "5", "6", "7", "8", "9"}
DigitVal ==
    ("0" :> 0) @@ ("1" :> 1) @@ ("2" :> 2) @@ ("3" :> 3) @@ ("4" :> 4) @@
    ("5" :> 5) @@ ("6" :> 6) @@ ("7" :> 7) @@ ("8" :> 8) @@ ("9" :> 9)

RECURSIVE SplitRec(_, _, _)
SplitRec(cs, sep, cur) ==
    IF cs = <<>> THEN <<cur>>
    ELSE IF Head(cs) = sep THEN <<cur>> \o SplitRec(Tail(cs), sep, <<>>)
    ELSE SplitRec(Tail(cs), sep, Append(cur, Head(cs)))
\* String.prototype.split(sep) for a one-character separator.
Split(cs, sep) == SplitRec(cs, sep, <<>>)

UndefinedText == <<"u", "n", "d", "e", "f", "i", "n", "e", "d">>
\* `${parts[i]}` of a destructured array: a missing element prints as "undefined".
Interpolate(parts, i) == IF i <= Len(parts) THEN parts[i] ELSE UndefinedText

\* `${minute} ${hour} * * ${daysStr}`: the time strings of the model hold no
\* blank, so the expression has exactly these five fields; days.join(',') is
\* kept as the list of numbers node-cron splits it back into.
CronExpression(s) ==
    LET parts == Split(Chars[s.time.text], ":")
    IN [minute |-> Interpolate(parts, 2), hour |-> Interpolate(parts, 1), days |-> s.days]

RECURSIVE ToNat(_)
ToNat(cs) == IF cs = <<>> THEN 0 ELSE 10 * ToNat(SubSeq(cs, 1, Len(cs) - 1)) + DigitVal[cs[Len(cs)]]

IsNumber(cs) == Len(cs) > 0 /\ \A i \in 1..Len(cs) : cs[i] \in Digits
\* node-cron accepts a field that is "*" or a number within the field's range.
FieldValid(cs, lo, hi) ==
    \/ cs = <<"*">>
    \/ IsNumber(cs) /\ ToNat(cs) >= lo /\ ToNat(cs) <= hi
\* cron.validate(cronExpression)
validateAcceptsAll(expr) == TRUE
validate(expr) ==
    /\ FieldValid(expr.minute, 0, 59)
    /\ FieldValid(expr.hour, 0, 23)
    /\ \A i \in 1..Len(expr.days) : expr.days[i] >= 0 /\ expr.days[i] <= 7

FieldMatches(cs, n) == cs = <<"*">> \/ ToNat(cs) = n
\* Whether a started task with this expression fires at the instant now.
Matches(expr, now) ==
    /\ FieldMatches(expr.minute, now.minute)
    /\ FieldMatches(expr.hour, now.hour)
    /\ \E i \in 1..Len(expr.days) : expr.days[i] % 7 = now.day % 7

(***************************************************************************)
(* RebootSchedulerService.                                                 *)
(***************************************************************************)
Absent == [kind |-> "absent", val |-> NoSchedule]
Corrupt == [kind |-> "corrupt", val |-> NoSchedule]
\* JSON.stringify(schedule): booleans, number arrays, strings and numbers
\* survive the round trip through JSON.parse unchanged.
Json(s) == [kind |-> "json", val |-> s]

loadScheduleIgnoresFile(f) == DEFAULT_SCHEDULE
loadSchedule(f) ==
    IF f.kind = "json" THEN Spread(DEFAULT_SCHEDULE, f.val) ELSE DEFAULT_SCHEDULE

saveScheduleTruncates(s, f, writeOk) == IF writeOk THEN Json(s) ELSE Corrupt
saveSchedule(s, f, writeOk) == IF writeOk THEN Json(s) ELSE f

RemoveAt(q, i) == SubSeq(q, 1, i - 1) \o SubSeq(q, i + 1, Len(q))

\* if (this.task) { this.task.stop(); this.task = null; }
StopExistingSkipped(t, act) == act
StopExisting(t, act) == IF t # 0 THEN RemoveAt(act, t) ELSE act

\* The guard of updateCronJob that leaves the schedule without a task.
DisabledIgnoresDays(s) == ~s.enabled
Disabled(s) == ~s.enabled \/ Len(s.days) = 0

\* Lines 73-100 of updateCronJob, once the previous task is stopped: the task
\* and the started tasks it leaves, and whether it threw.
Rebuild(s, stopped) ==
    LET none == [task |-> 0, active |-> stopped, threw |-> FALSE]
    IN  IF Disabled(s) THEN none
        ELSE IF s.time.kind # "string"
             THEN [none EXCEPT !.threw = TRUE]     \* time.split is not a function
        ELSE IF ~validate(CronExpression(s)) THEN none
        ELSE [task |-> Len(stopped) + 1,
              active |-> Append(stopped, CronExpression(s)),
              threw |-> FALSE]

updateCronJobKeepsTask(s, t, act) ==
    IF t # 0 THEN [task |-> t, active |-> act, threw |-> FALSE] ELSE Rebuild(s, act)
updateCronJob(s, t, act) == Rebuild(s, StopExisting(t, act))

getSchedule == schedule

NoNow == [day |-> 0, hour |-> 0, minute |-> 0]
Quiet(name) ==
    [op |-> name, partial |-> <<>>, hadTask |-> FALSE, writeOk |-> TRUE,
     threw |-> FALSE, ret |-> NoSchedule,
     now |-> NoNow, fired |-> 0, reboot |-> "none", crashedAt |-> "none"]

SchedInit ==
    /\ proc = "running"
    /\ file = Absent
    /\ schedule = loadSchedule(Absent)
    /\ task = updateCronJob(loadSchedule(Absent), 0, <<>>).task
    /\ active = updateCronJob(loadSchedule(Absent), 0, <<>>).active
    /\ last = Quiet("construct")

\* updateSchedule(newSchedule), called by POST /reboot/schedule with req.body.
updateSchedule(p, writeOk) ==
    /\ proc = "running"
    /\ \E merged \in {Spread(schedule, p)} :
       \E job \in {updateCronJob(merged, task, active)} :
           /\ schedule' = merged
           /\ file' = saveSchedule(merged, file, writeOk)
           /\ task' = job.task
           /\ active' = job.active
           /\ last' = [Quiet("update") EXCEPT
                          !.partial = p, !.hadTask = (task # 0),
                          !.writeOk = writeOk, !.threw = job.threw,
                          !.ret = IF job.threw THEN NoSchedule ELSE merged]
    /\ proc' = proc
    /\ UNCHANGED <<normVars, routeVars, clientVars>>

\* The reboot task's callback: await freeboxApi.reboot() inside try/catch. A
\* failure, returned or thrown, is logged; the task and the schedule stay.
callbackStopsOnFailure(outcome, t, act) ==
    IF outcome = "ok" THEN [task |-> t, active |-> act]
    ELSE [task |-> 0, active |-> StopExisting(t, act)]
callback(outcome, t, act) == [task |-> t, active |-> act]

\* The instants at which the clock is observed.
Instants ==
    {[day |-> 1, hour |-> 3, minute |-> 0],
     [day |-> 1, hour |-> 4, minute |-> 0],
     [day |-> 2, hour |-> 3, minute |-> 0]}
RebootOutcomes == {"ok", "failure_result", "thrown"}

\* How many calls of freeboxApi.reboot() the instant now causes: one per
\* started task whose expression matches it.
Firings(act, now) == Cardinality({i \in 1..Len(act) : Matches(act[i], now)})

\* The clock reaches an instant: node-cron runs the callback of every started
\* task that matches it.
Tick(now, outcome) ==
    /\ proc = "running"
    /\ Firings(active, now) = 0 => outcome = "ok"
    /\ \E n \in {Firings(active, now)} :
       \E after \in {IF n > 0 THEN callback(outcome, task, active)
                              ELSE [task |-> task, active |-> active]} :
           /\ task' = after.task
           /\ active' = after.active
           /\ last' = [Quiet("tick") EXCEPT
                          !.now = now, !.fired = n,
                          !.reboot = IF n > 0 THEN outcome ELSE "none"]
    /\ UNCHANGED <<proc, schedule, file>>
    /\ UNCHANGED <<normVars, routeVars, clientVars>>

CrashPoints == {"before_write", "during_write", "after_write"}
\* The process dies inside updateSchedule(p): before writeFileSync, inside it
\* (the file is left truncated) or after it and before the task is rebuilt.
Crash(p, point) ==
    /\ proc = "running"
    /\ point # "after_write" => p = Restrict(DEFAULT_SCHEDULE, {})
    /\ proc' = "down"
    /\ schedule' = NoSchedule
    /\ task' = 0
    /\ active' = <<>>
    /\ file' = CASE point = "before_write" -> file
                 [] point = "during_write" -> Corrupt
                 [] point = "after_write" -> Json(Spread(schedule, p))
    /\ last' = [Quiet("crash") EXCEPT !.crashedAt = point]
    /\ UNCHANGED <<normVars, routeVars, clientVars>>

\* The module is imported again: new RebootSchedulerService().
Restart ==
    /\ proc \in {"down", "failed"}
    /\ \E loaded \in {loadSchedule(file)} :
       \E job \in {updateCronJob(loaded, 0, <<>>)} :
           /\ proc' = IF job.threw THEN "failed" ELSE "running"
           /\ schedule' = IF job.threw THEN NoSchedule ELSE loaded
           /\ task' = job.task
           /\ active' = job.active
           /\ last' = [Quiet("construct") EXCEPT
                          !.threw = job.threw, !.crashedAt = last.crashedAt]
    /\ file' = file
    /\ UNCHANGED <<normVars, routeVars, clientVars>>

(***************************************************************************)
(* The telemetry normalizer. A payload is a function from its keys to     *)
(* their values; a sensor or fan is a record id, name, value.             *)
(***************************************************************************)
CoreKeys == <<"temp_cpu0", "temp_cpu1", "temp_cpu2", "temp_cpu3">>
TempKeys == {"temp_cpu0", "temp_cpu1", "temp_cpu2", "temp_cpu3",
             "temp_cpum", "temp_cpub", "temp_sw"}
FlatKeys == TempKeys \cup {"fan_rpm"}

\* The ids a sensors array of the model carries.
SensorIds == {"temp_cpu0", "temp_cpu1", "temp_cpum", "temp_hdd", "t1", "fan0_speed"}
FanIds == {"fan0_speed", "fan1_speed"}

SENSOR_NAMES ==
    ("temp_cpu0" :> "CPU 0") @@ ("temp_cpu1" :> "CPU 1") @@ ("temp_cpu2" :> "CPU 2") @@
    ("temp_cpu3" :> "CPU 3") @@ ("temp_cpum" :> "CPU") @@ ("temp_cpub" :> "CPU Box") @@
    ("temp_sw" :> "Switch") @@ ("temp_hdd" :> "Disque") @@ ("temp_hdd0" :> "Disque 1") @@
    ("temp_hdd1" :> "Disque 2") @@ ("t1" :> "CPU") @@ ("t2" :> "CPU Box") @@
    ("t3" :> "Switch") @@ ("cpu_ap" :> "CPU") @@ ("cpu_cp" :> "CPU Box") @@
    ("switch" :> "Switch")

FAN_NAMES ==
    ("fan0_speed" :> "Ventilateur 1") @@ ("fan1_speed" :> "Ventilateur 2") @@
    ("fan0" :> "Ventilateur 1") @@ ("fan1" :> "Ventilateur 2") @@
    ("main" :> "Ventilateur") @@ ("fan" :> "Ventilateur") @@ ("fan_rpm" :> "Ventilateur")

\* The name the firmware gives with each id: none for a fan listed among the
\* sensors, a localized "Température ..." for the others.
RawName ==
    ("temp_cpu0" :> "Température CPU 0") @@ ("temp_cpu1" :> "Température CPU 1") @@
    ("temp_cpum" :> "Température CPU") @@ ("temp_hdd" :> "Température Disque") @@
    ("t1" :> "Température 1") @@ ("fan0_speed" :> "") @@ ("fan1_speed" :> "Ventilateur 2")

\* name.replace(/^Température\s+/i, '').replace(/^Temperature\s+/i, '').trim()
StripTemperature ==
    ("Température CPU 0" :> "CPU 0") @@ ("Température CPU 1" :> "CPU 1") @@
    ("Température CPU" :> "CPU") @@ ("Température Disque" :> "Disque") @@
    ("Température 1" :> "1") @@ ("Fan0 Speed" :> "Fan0 Speed") @@
    ("CPU 0" :> "CPU 0") @@ ("CPU 1" :> "CPU 1") @@ ("CPU" :> "CPU") @@
    ("Disque" :> "Disque")

\* id.replace('temp_', '').replace(/_/g, ' ').replace(/\b\w/g, l => l.toUpperCase())
CleanSensorId == ("fan0_speed" :> "Fan0 Speed")

getSensorDisplayName(id, originalName) ==
    IF id \in DOMAIN SENSOR_NAMES THEN SENSOR_NAMES[id]
    ELSE IF originalName # "" THEN StripTemperature[originalName]
    ELSE CleanSensorId[id]

\* id.replace('_speed', '').replace(/_/g, ' ').replace(/\b\w/g, l => l.toUpperCase())
CleanFanId == ("fan2_speed" :> "Fan2")

getFanDisplayName(id, originalName) ==
    IF id \in DOMAIN FAN_NAMES THEN FAN_NAMES[id]
    ELSE IF originalName # "" THEN originalName
    ELSE CleanFanId[id]

\* id.startsWith('temp_'), over the ids of the model.
StartsWithTemp(id) == id \in TempKeys \cup {"temp_hdd", "temp_hdd0", "temp_hdd1"}

\* x != null for the key k of the object r.
Has(r, k) == k \in DOMAIN r

\* An entry of a sensors or fans array that is the JSON null.
NullEntry == [null |-> TRUE]
\* An id that is a JSON number instead of a string.
NumberId == "#7"
\* A value under the key sensors or fans that is not an array (an object).
NotAnArray == <<[object |-> TRUE]>>
\* What reading .id gives on an entry without an id.
UndefinedId == "#undefined"
\* entry.id
IdOf(entry) == IF Has(entry, "id") THEN entry.id ELSE UndefinedId
\* typeof id === 'string': the ids with the string methods replace and startsWith.
IsString(id) == id \notin {NumberId, UndefinedId}
\* data[k] && Array.isArray(data[k])
IsArray(data, k) == Has(data, k) /\ data[k] # NotAnArray

\* getSensorDisplayName(id, name) ends in id.replace(...), a TypeError when
\* the id is no string; it gets there when the name is empty.
getSensorDisplayNameThrows(id, originalName) ==
    id \notin DOMAIN SENSOR_NAMES /\ originalName = "" /\ ~IsString(id)
\* getFanDisplayName(id, name) likewise.
getFanDisplayNameThrows(id, originalName) ==
    id \notin DOMAIN FAN_NAMES /\ originalName = "" /\ ~IsString(id)
\* r[k] = v
Put(r, k, v) == [x \in (DOMAIN r) \cup {k} |-> IF x = k THEN v ELSE r[x]]

RECURSIVE SumSeq(_)
SumSeq(q) == IF q = <<>> THEN 0 ELSE Head(q) + SumSeq(Tail(q))
\* Math.round(x / n) for x >= 0, n > 0: halves round up.
RoundDiv(x, n) == (2 * x + n) \div (2 * n)

RECURSIVE Present(_, _)
\* [r.temp_cpu0, ..., r.temp_cpu3].filter(t => t != null)
Present(r, keys) ==
    IF keys = <<>> THEN <<>>
    ELSE (IF Has(r, Head(keys)) THEN <<r[Head(keys)]>> ELSE <<>>) \o Present(r, Tail(keys))

\* One pass of the loop over rawSensors: copy a value into the legacy fields.
ExtractSensor(r, sensor) ==
    LET r1 == IF StartsWithTemp(sensor.id) THEN Put(r, sensor.id, sensor.value) ELSE r
        r2 == IF sensor.id \in {"t1", "cpu_ap"} THEN Put(r1, "temp_cpum", sensor.value) ELSE r1
        r3 == IF sensor.id \in {"t2", "cpu_cp"} THEN Put(r2, "temp_cpub", sensor.value) ELSE r2
    IN  IF sensor.id \in {"t3", "switch"} THEN Put(r3, "temp_sw", sensor.value) ELSE r3

RECURSIVE ExtractAll(_, _)
ExtractAll(r, sensors) ==
    IF sensors = <<>> THEN r ELSE ExtractAll(ExtractSensor(r, Head(sensors)), Tail(sensors))

\* A reading is a number or, when the firmware has no value to report, the JSON
\* string "n/a". Numbers are the naturals; the string and the NaN that
\* arithmetic makes of it are written as two reserved negative integers.
TextNA == 0 - 1
NaN == 0 - 2
IsNumeric(v) == v >= 0

\* Math.round(coreTemps.reduce((a, b) => a + b, 0) / coreTemps.length): adding
\* the string "n/a" turns the accumulator into a string that holds "n/a", the
\* division makes it NaN, and Math.round(NaN) is NaN.
MeanOf(coreTemps) ==
    IF \A i \in 1..Len(coreTemps) : IsNumeric(coreTemps[i])
    THEN RoundDiv(SumSeq(coreTemps), Len(coreTemps))
    ELSE NaN

\* "For Ultra: calculate cpum as average of 4 cores if not present"
DeriveCpum(r) ==
    IF Has(r, "temp_cpu0") /\ ~Has(r, "temp_cpum") /\ Present(r, CoreKeys) # <<>>
    THEN Put(r, "temp_cpum", MeanOf(Present(r, CoreKeys)))
    ELSE r

\* The sensors branch taken when data.sensors is an array.
SensorsFromArray(data, result) ==
    LET named == [i \in 1..Len(data.sensors) |->
                    [id |-> data.sensors[i].id,
                     name |-> getSensorDisplayName(data.sensors[i].id, data.sensors[i].name),
                     value |-> data.sensors[i].value]]
    IN  DeriveCpum(ExtractAll(Put(result, "sensors", named), data.sensors))

RECURSIVE FlatEntries(_, _)
FlatEntries(data, keys) ==
    IF keys = <<>> THEN <<>>
    ELSE (IF Has(data, Head(keys))
          THEN <<[id |-> Head(keys), name |-> SENSOR_NAMES[Head(keys)], value |-> data[Head(keys)]]>>
          ELSE <<>>) \o FlatEntries(data, Tail(keys))

\* The legacy branch: build the sensors array from the flat fields.
SensorsFromFlat(data, result) ==
    LET cores == IF Has(data, "temp_cpu0") THEN FlatEntries(data, CoreKeys) ELSE <<>>
        sensors == cores \o FlatEntries(data, <<"temp_cpum", "temp_cpub", "temp_sw">>)
    IN  IF Len(sensors) > 0 THEN Put(result, "sensors", sensors) ELSE result

MainFanIds == {"fan0_speed", "main", "fan0", "fan"}
\* rawFans.find(f => main fan id) || rawFans[0]; an empty sequence when there is none.
MainFan(fans) ==
    LET hits == {i \in 1..Len(fans) : IdOf(fans[i]) \in MainFanIds}
    IN  IF hits # {} THEN <<fans[CHOOSE i \in hits : \A j \in hits : i <= j]>>
        ELSE IF Len(fans) > 0 THEN <<fans[1]>> ELSE <<>>

FansFromArray(data, result) ==
    LET named == [i \in 1..Len(data.fans) |->
                    IF Has(data.fans[i], "id")
                    THEN [id |-> data.fans[i].id,
                          name |-> getFanDisplayName(data.fans[i].id, data.fans[i].name),
                          value |-> data.fans[i].value]
                    ELSE [name |-> getFanDisplayName(UndefinedId, data.fans[i].name),
                          value |-> data.fans[i].value]]
        r1 == Put(result, "fans", named)
    IN  IF MainFan(data.fans) # <<>> THEN Put(r1, "fan_rpm", MainFan(data.fans)[1].value) ELSE r1

normalizeFans(data, result) ==
    IF IsArray(data, "fans") THEN FansFromArray(data, result)
    ELSE IF Has(data, "fan_rpm")
         THEN Put(result, "fans",
                  <<[id |-> "fan_rpm", name |-> "Ventilateur", value |-> data.fan_rpm]>>)
    ELSE result

normalizeSystemInfo(data) ==
    normalizeFans(data,
        IF IsArray(data, "sensors") THEN SensorsFromArray(data, data)
        ELSE SensorsFromFlat(data, data))

\* rawSensors.map(sensor => ... sensor.id ... getSensorDisplayName(...)) and the
\* loop's sensor.id.startsWith('temp_'): a TypeError on a null entry and on an
\* id that is no string.
SensorEntryThrows(sensor) ==
    \/ sensor = NullEntry
    \/ getSensorDisplayNameThrows(IdOf(sensor), sensor.name)
    \/ ~IsString(IdOf(sensor))
\* rawFans.map(fan => ... fan.id ... getFanDisplayName(...)); the search for the
\* main fan only compares ids.
FanEntryThrows(fan) ==
    \/ fan = NullEntry
    \/ getFanDisplayNameThrows(IdOf(fan), fan.name)
\* normalizeSystemInfo(data) raises a TypeError.
normalizeThrows(data) ==
    \/ IsArray(data, "sensors") /\ \E i \in 1..Len(data.sensors) : SensorEntryThrows(data.sensors[i])
    \/ IsArray(data, "fans") /\ \E i \in 1..Len(data.fans) : FanEntryThrows(data.fans[i])

(***************************************************************************)
(* The raw payloads the normalizer is applied to.                          *)
(***************************************************************************)
\* The reading each flat field carries (the spec's scenario for the cores).
FlatValue ==
    ("temp_cpu0" :> 40) @@ ("temp_cpu1" :> 42) @@ ("temp_cpu2" :> 41) @@
    ("temp_cpu3" :> 43) @@ ("temp_cpum" :> 50) @@ ("temp_cpub" :> 45) @@
    ("temp_sw" :> 38) @@ ("fan_rpm" :> 1200)
FanSpeed == ("fan0_speed" :> 1200) @@ ("fan1_speed" :> 900)
SensorValues == {40, 43}

RECURSIVE SeqsUpTo(_, _)
\* The sequences over S of length at most n.
SeqsUpTo(S, n) ==
    IF n = 0 THEN {<<>>}
    ELSE LET shorter == SeqsUpTo(S, n - 1)
         IN  shorter \cup {Append(q, x) : q \in {r \in shorter : Len(r) = n - 1}, x \in S}

EmptyPayload == [k \in {} |-> 0]
\* Flat shape: any subset of the legacy fields.
FlatPayloads == {[k \in D |-> FlatValue[k]] : D \in SUBSET FlatKeys}
\* A few flat fields that accompany an array in a partial mixture.
FlatFew ==
    {[k \in D |-> FlatValue[k]] :
        D \in {{"temp_cpum"}, {"temp_cpu0"}, {"temp_cpu1", "temp_sw"}, {"fan_rpm"}}}

SensorEntries ==
    {[id |-> i, name |-> RawName[i], value |-> v] : i \in SensorIds, v \in SensorValues}
FanEntries == {[id |-> i, name |-> RawName[i], value |-> FanSpeed[i]] : i \in FanIds}
\* Array shape: sensors and fans arrays of at most MaxSensors entries.
SensorPayloads == {[sensors |-> a] : a \in SeqsUpTo(SensorEntries, MaxSensors)}
FanPayloads == {[fans |-> a] : a \in SeqsUpTo(FanEntries, MaxSensors)}

\* Entries a firmware or a proxy may send that are not {id: string, ...}.
BadSensorEntries ==
    {NullEntry,
     [name |-> "Température CPU", value |-> 40],
     [name |-> "", value |-> 40],
     [id |-> NumberId, name |-> "Température CPU", value |-> 40]}
BadFanEntries ==
    {NullEntry,
     [name |-> "Ventilateur 2", value |-> 900],
     [name |-> "", value |-> 900],
     [id |-> NumberId, name |-> "Ventilateur 2", value |-> 900]}
\* Malformed payloads: a bad entry alone or after a good one, and a sensors or
\* fans key that holds no array.
MalformedPayloads ==
    {[sensors |-> <<e>>] : e \in BadSensorEntries}
    \cup {[sensors |-> <<g, e>>] : g \in {x \in SensorEntries : x.id = "temp_cpum"},
                                    e \in BadSensorEntries}
    \cup {[fans |-> <<e>>] : e \in BadFanEntries}
    \cup {[fans |-> <<g, e>>] : g \in FanEntries, e \in BadFanEntries}
    \cup {Spread([sensors |-> NotAnArray], b) : b \in FlatFew \cup {EmptyPayload}}
    \cup {Spread([fans |-> NotAnArray], b) : b \in FlatFew \cup {EmptyPayload}}

\* The spec's scenario of a fan reading delivered inside the sensors array.
FanAmongSensors == [sensors |-> <<[id |-> "fan0_speed", name |-> "", value |-> 1200]>>]

\* Per-core readings of which some are the string "n/a", in both shapes.
CoreReadings ==
    {[temp_cpu0 |-> TextNA], [temp_cpu0 |-> 40, temp_cpu1 |-> TextNA],
     [temp_cpu0 |-> TextNA, temp_cpu1 |-> 43], [temp_cpu0 |-> TextNA, temp_cpu1 |-> TextNA],
     [temp_cpu0 |-> 40, temp_cpu1 |-> 43, temp_cpu2 |-> TextNA]}
NonNumericPayloads ==
    CoreReadings
    \cup {[sensors |-> [i \in 1..Len(FlatEntries(r, CoreKeys)) |->
                          [id |-> FlatEntries(r, CoreKeys)[i].id, name |-> "",
                           value |-> FlatEntries(r, CoreKeys)[i].value]]] : r \in CoreReadings}

Inputs ==
    FlatPayloads \cup FanPayloads \cup MalformedPayloads \cup {FanAmongSensors}
    \cup NonNumericPayloads
    \cup {Spread(a, b) : a \in SensorPayloads, b \in FanPayloads \cup FlatFew \cup {EmptyPayload}}
    \cup {Spread(a, b) : a \in FanPayloads, b \in FlatFew}

\* normalizeSystemInfo applied to the payload, then to its own result.
Normalize ==
    /\ Len(nout) < MaxApply
    /\ ~nthrew
    /\ \E data \in {IF nout = <<>> THEN nin ELSE nout[Len(nout)]} :
          IF normalizeThrows(data)
          THEN nthrew' = TRUE /\ nout' = nout
          ELSE nthrew' = FALSE /\ nout' = Append(nout, normalizeSystemInfo(data))
    /\ nin' = nin
    /\ UNCHANGED <<schedVars, routeVars, clientVars>>

NormIdle ==
    /\ nin = EmptyPayload
    /\ nout = <<>>
    /\ nthrew = FALSE

(***************************************************************************)
(* GET /api/system: the telemetry query of the system router.              *)
(***************************************************************************)
\* How freeboxApi.getSystemInfo() and freeboxApi.getApiVersion() end: a
\* result with success true, a result with success false, a rejection.
FetchOutcomes == {"ok", "failure", "thrown"}
\* The JSON null.
JsonNull == "#null"
\* The result of /api_version: any part of the descriptor may be missing.
VersionKeys == {"box_model_name", "box_model", "device_name", "api_version"}
VersionValue ==
    ("box_model_name" :> "Freebox v9 (r1)") @@ ("box_model" :> "fbxgw9-r1") @@
    ("device_name" :> "Freebox Server") @@ ("api_version" :> "12.0")
Versions ==
    {[k \in D |-> VersionValue[k]] :
        D \in {VersionKeys, {"box_model", "api_version"}, {"device_name"}, {}}}
\* a || b || null over the keys of the version descriptor.
FirstOr(version, keys) ==
    IF keys = <<>> THEN JsonNull
    ELSE IF Has(version, keys[1]) THEN version[keys[1]]
    ELSE IF Len(keys) > 1 /\ Has(version, keys[2]) THEN version[keys[2]]
    ELSE JsonNull
\* system.box_model_name = ...; system.device_name = ...; system.api_version = ...
WithModelInfo(system, version) ==
    Put(Put(Put(system,
        "box_model_name", FirstOr(version, <<"box_model_name", "box_model">>)),
        "device_name", FirstOr(version, <<"device_name">>)),
        "api_version", FirstOr(version, <<"api_version">>))
\* The telemetry the device answers with.
RoutePayloads ==
    FlatFew \cup {EmptyPayload} \cup FanPayloads \cup MalformedPayloads \cup {FanAmongSensors}
    \cup {[sensors |-> <<e>>] : e \in SensorEntries}

NoReply == [sys |-> "none", ver |-> "none", raw |-> EmptyPayload, kind |-> "none",
            success |-> FALSE, result |-> EmptyPayload]
RouteIdle == reply = NoReply

\* router.get('/'): both fetches through Promise.all, the model info and the
\* normalization under the four-way guard, then res.json(systemResult).
GetSystem(sys, ver, raw, version) ==
    /\ \E answer \in {[sys |-> sys, ver |-> ver, raw |-> raw]} :
          reply' =
            IF sys = "thrown" \/ ver = "thrown"
            THEN answer @@ [kind |-> "error", success |-> FALSE, result |-> EmptyPayload]
            ELSE IF sys = "failure"
            THEN answer @@ [kind |-> "json", success |-> FALSE, result |-> EmptyPayload]
            ELSE IF ver = "failure"
            THEN answer @@ [kind |-> "json", success |-> TRUE, result |-> raw]
            ELSE IF normalizeThrows(WithModelInfo(raw, version))
            THEN answer @@ [kind |-> "error", success |-> FALSE, result |-> EmptyPayload]
            ELSE answer @@ [kind |-> "json", success |-> TRUE,
                            result |-> normalizeSystemInfo(WithModelInfo(raw, version))]
    /\ UNCHANGED <<schedVars, normVars, clientVars>>

(***************************************************************************)
(* The client stores: useSystemStore and useConnectionStore, as the        *)
(* WebSocket message handler and fetchSystemInfo update them.              *)
(***************************************************************************)
\* The fields of SystemStatusData.
SystemKeys == TempKeys \cup {"fan_rpm", "uptime_val"}
\* info: null
NoInfo == <<>>
\* An optional value: <<>> for undefined, <<v>> for v.
Undefined == <<>>
Get(r, k) == IF Has(r, k) THEN <<r[k]>> ELSE Undefined
\* a ?? b
Coalesce(a, b) == IF a # Undefined THEN a ELSE b
\* {...r, k: value}; a key set to undefined reads as undefined afterwards.
Set(r, k, value) ==
    IF value = Undefined THEN [x \in (DOMAIN r) \ {k} |-> r[x]] ELSE Put(r, k, value[1])

\* The slice argument of the three history updates: slice(-59).
KeepLast == 59
\* h.slice(-59) without the bound: the whole history.
LastPointsKeepsAll(h) == h
\* h.slice(-59)
LastPoints(h) == IF Len(h) > KeepLast THEN SubSeq(h, Len(h) - KeepLast + 1, Len(h)) ELSE h
\* new Date().toLocaleTimeString(...): the reading of a clock that moves on
\* with every point of a history.
TimeAfter(h) == IF h = <<>> THEN 1 ELSE h[Len(h)].time + 1

\* The rounded mean of the per-core values of r, undefined without any.
CoreMean(r) ==
    IF Present(r, CoreKeys) = <<>> THEN Undefined
    ELSE <<RoundDiv(SumSeq(Present(r, CoreKeys)), Len(Present(r, CoreKeys)))>>
\* "Calculate CPU temp: average of Ultra cores or use legacy cpum"
PushCpuM(systemData) ==
    IF Has(systemData, "temp_cpu0") THEN CoreMean(systemData) ELSE Get(systemData, "temp_cpum")
\* The history point built from its optional values.
Point(time, cpuM, cpuB, sw) ==
    Set(Set(Set([time |-> time], "cpuM", cpuM), "cpuB", cpuB), "sw", sw)
PushPoint(systemData, time) ==
    Point(time, PushCpuM(systemData), Get(systemData, "temp_cpub"), Get(systemData, "temp_sw"))
\* "Update info with latest values"
UpdatedInfo(info, systemData) ==
    IF info = NoInfo THEN NoInfo
    ELSE LET r1 == Set(info[1], "temp_cpu0", Get(systemData, "temp_cpu0"))
             r2 == Set(r1, "temp_cpu1", Get(systemData, "temp_cpu1"))
             r3 == Set(r2, "temp_cpu2", Get(systemData, "temp_cpu2"))
             r4 == Set(r3, "temp_cpu3", Get(systemData, "temp_cpu3"))
             r5 == Set(r4, "temp_cpum", Coalesce(Get(systemData, "temp_cpum"), PushCpuM(systemData)))
             r6 == Set(r5, "temp_cpub", Get(systemData, "temp_cpub"))
             r7 == Set(r6, "temp_sw", Get(systemData, "temp_sw"))
             r8 == Set(r7, "fan_rpm", Get(systemData, "fan_rpm"))
         IN  <<Set(r8, "uptime_val", Coalesce(Get(systemData, "uptime_val"), Get(info[1], "uptime_val")))>>

NoEvent == [type |-> "none", data |-> EmptyPayload]

\* ws.onmessage with a system_status message.
OnSystemStatus(systemData) ==
    /\ systemStore' =
          [systemStore EXCEPT
              !.info = UpdatedInfo(systemStore.info, systemData),
              !.temperatureHistory =
                  Append(LastPoints(systemStore.temperatureHistory),
                         PushPoint(systemData, TimeAfter(systemStore.temperatureHistory)))]
    /\ event' = [type |-> "system_status", data |-> systemData]
    /\ UNCHANGED <<connectionStore, sysFetches>>
    /\ UNCHANGED <<schedVars, normVars, routeVars, hookVars>>

\* useConnectionStore.setState of the connection_status branch.
ApplyConnectionStatus(status) ==
    /\ connectionStore' =
          [status |-> <<status>>,
           error |-> "",
           history |->
              Append(LastPoints(connectionStore.history),
                     [time |-> TimeAfter(connectionStore.history),
                      download |-> RoundDiv(status.rate_down, 1024),
                      upload |-> RoundDiv(status.rate_up, 1024)])]
    /\ event' = [type |-> "connection_status", data |-> status]

\* ws.onmessage with a connection_status message.
OnConnectionStatus(status) ==
    /\ ApplyConnectionStatus(status)
    /\ UNCHANGED <<systemStore, sysFetches>>
    /\ UNCHANGED <<schedVars, normVars, routeVars, hookVars>>

\* s.id.startsWith('temp_cpu') || s.id.startsWith('cpu') || s.id === 't1'
IsCpuSensor(id) ==
    id \in {"temp_cpu0", "temp_cpu1", "temp_cpu2", "temp_cpu3", "temp_cpum", "temp_cpub",
            "cpu_ap", "cpu_cp", "t1"}
\* info.sensors.find(s => s.id is one of ids): its value, undefined without one.
FindValue(sensors, ids) ==
    LET hits == {i \in 1..Len(sensors) : sensors[i].id \in ids}
    IN  IF hits = {} THEN Undefined
        ELSE <<sensors[CHOOSE i \in hits : \A j \in hits : i <= j].value>>
\* The sensors of info when it has a non-empty sensors array.
PollSensors(info) ==
    IF IsArray(info, "sensors") /\ Len(info.sensors) > 0 THEN info.sensors ELSE <<>>
\* The mean of the CPU sensors, then the fallback to the flat fields.
PollCpuM(info) ==
    LET cpuSensors == SelectSeq(PollSensors(info), LAMBDA e : IsCpuSensor(e.id))
        values == [i \in 1..Len(cpuSensors) |-> cpuSensors[i].value]
    IN  IF cpuSensors # <<>> THEN <<RoundDiv(SumSeq(values), Len(values))>>
        ELSE IF Has(info, "temp_cpu0") THEN CoreMean(info)
        ELSE Get(info, "temp_cpum")
PollPoint(info, time) ==
    Point(time,
          PollCpuM(info),
          Coalesce(FindValue(PollSensors(info), {"temp_cpub", "cpub"}), Get(info, "temp_cpub")),
          Coalesce(FindValue(PollSensors(info), {"temp_sw", "sw", "t2"}), Get(info, "temp_sw")))

\* fetchSystemInfo up to its await: the request is sent.
FetchSystemInfoStart ==
    /\ sysFetches < MaxInFlight
    /\ sysFetches' = sysFetches + 1
    /\ systemStore' = [systemStore EXCEPT !.isLoading = TRUE, !.error = ""]
    /\ event' = [type |-> "fetch_start", data |-> EmptyPayload]
    /\ UNCHANGED connectionStore
    /\ UNCHANGED <<schedVars, normVars, routeVars, hookVars>>

\* fetchSystemInfo after its await: the response (or the rejection) is handled.
FetchSystemInfoDone(outcome, info) ==
    /\ sysFetches > 0
    /\ sysFetches' = sysFetches - 1
    /\ systemStore' =
          IF outcome = "ok"
          THEN [systemStore EXCEPT
                   !.info = <<info>>,
                   !.temperatureHistory =
                       Append(LastPoints(systemStore.temperatureHistory),
                              PollPoint(info, TimeAfter(systemStore.temperatureHistory))),
                   !.isLoading = FALSE]
          ELSE [systemStore EXCEPT !.isLoading = FALSE, !.error = "Failed to fetch system info"]
    /\ event' = [type |-> "fetch_done", data |-> IF outcome = "ok" THEN info ELSE EmptyPayload]
    /\ UNCHANGED connectionStore
    /\ UNCHANGED <<schedVars, normVars, routeVars, hookVars>>

\* The system_status messages and the telemetry a poll returns.
MessageValue == FlatValue @@ ("uptime_val" :> 3600)
SystemMessages ==
    {[k \in D |-> MessageValue[k]] :
        D \in {SystemKeys,
               {"temp_cpum", "temp_cpub", "temp_sw", "fan_rpm", "uptime_val"},
               {"temp_cpu0", "temp_cpu1", "temp_cpu2", "temp_cpu3"},
               {"temp_cpu1", "temp_cpum"},
               {"temp_cpum"},
               {"temp_sw", "uptime_val"},
               {}}}
\* A device that reports its main CPU only, the same reading every time.
SteadyTelemetry == [temp_cpum |-> 50]
SteadyMessage == SteadyTelemetry
PollValue == FlatValue @@ ("uptime_val" :> 7200)
PollResults ==
    {normalizeSystemInfo(raw) :
        raw \in {[k \in D |-> PollValue[k]] :
                    D \in {SystemKeys,
                           {"temp_cpum", "temp_cpub", "temp_sw", "fan_rpm", "uptime_val"},
                           {"temp_cpum"}}}
                \cup {[sensors |-> <<e>>] : e \in {x \in SensorEntries : x.value = 40}}}
SteadyPoll == normalizeSystemInfo(SteadyTelemetry)
\* ConnectionStatus: the rates in bytes per second.
Rates == {0, 1536, 2048}
ConnectionStatuses == {[rate_down |-> d, rate_up |-> u] : d \in Rates, u \in {0, 512}}
SteadyStatus == [rate_down |-> 1536, rate_up |-> 512]

StoreIdle ==
    /\ systemStore = [info |-> NoInfo, temperatureHistory |-> <<>>, isLoading |-> FALSE, error |-> ""]
    /\ connectionStore = [status |-> <<>>, error |-> "", history |-> <<>>]
    /\ sysFetches = 0
    /\ event = NoEvent

(***************************************************************************)
(* useConnectionWebSocket: one hook instance, the WebSockets it creates and *)
(* the reconnect timers their close handlers set.                          *)
(***************************************************************************)
\* WebSocket.readyState
Live == {"connecting", "open"}
\* h.wsRef.current?.readyState is OPEN or CONNECTING
RefIsLive(h) == h.wsRef # 0 /\ h.sockets[h.wsRef].readyState \in Live
\* connect() of the render whose enabled is en: ws.onclose keeps that value.
connect(h, en) ==
    IF RefIsLive(h) THEN h
    ELSE [h EXCEPT !.sockets = Append(h.sockets, [readyState |-> "connecting", enabled |-> en]),
                   !.wsRef = Len(h.sockets) + 1]
\* connect() would call new WebSocket.
Creates(h) == ~RefIsLive(h)
\* clearTimeout(reconnectTimeoutRef.current)
ClearTimer(timers, ref) ==
    IF ref # 0 /\ timers[ref].state = "pending"
    THEN [timers EXCEPT ![ref].state = "cleared"] ELSE timers
\* ws.close(): a socket that is connecting or open starts closing.
Close(sockets, ref) ==
    IF ref # 0 /\ sockets[ref].readyState \in Live
    THEN [sockets EXCEPT ![ref].readyState = "closing"] ELSE sockets
\* disconnect without clearing the pending reconnect.
disconnectKeepsTimer(h) ==
    [h EXCEPT !.sockets = Close(h.sockets, h.wsRef),
              !.wsRef = 0,
              !.isConnected = FALSE]
\* disconnect()
disconnect(h) ==
    [h EXCEPT !.timers = ClearTimer(h.timers, h.reconnectTimeoutRef),
              !.reconnectTimeoutRef = 0,
              !.sockets = Close(h.sockets, h.wsRef),
              !.wsRef = 0,
              !.isConnected = FALSE]
\* The body of the effect: connect when enabled, disconnect otherwise.
effect(h, en) == IF en THEN connect(h, en) ELSE disconnect(h)

\* The server's n-th connection reading, told apart by its rate.
Reading(n) == [rate_down |-> 1024 * n, rate_up |-> 512]

NotMounted ==
    [mounted |-> "no", enabled |-> FALSE, wsRef |-> 0, reconnectTimeoutRef |-> 0,
     isConnected |-> FALSE, sockets |-> <<>>, timers |-> <<>>]
HookIdle ==
    /\ hook = NotMounted
    /\ connFetches = <<>>
    /\ serverSeq = 0

ClientIdle == StoreIdle /\ HookIdle

\* The component mounts with the option enabled = en and its effect runs.
Mount(en) ==
    /\ hook.mounted = "no"
    /\ hook' = effect([hook EXCEPT !.mounted = "yes", !.enabled = en], en)
    /\ UNCHANGED <<connFetches, serverSeq, storeVars>>
    /\ UNCHANGED <<schedVars, normVars, routeVars>>

\* A render with the other value of enabled: the cleanup of the previous
\* effect, then the effect of the new render.
SetEnabled ==
    /\ hook.mounted = "yes"
    /\ \E h \in {disconnect(hook)} :
          /\ ~hook.enabled /\ Creates(h) => Len(h.sockets) < MaxSockets
          /\ hook' = effect([h EXCEPT !.enabled = ~hook.enabled], ~hook.enabled)
    /\ UNCHANGED <<connFetches, serverSeq, storeVars>>
    /\ UNCHANGED <<schedVars, normVars, routeVars>>

\* The component unmounts: the cleanup of the effect.
Unmount ==
    /\ hook.mounted = "yes"
    /\ hook' = [disconnect(hook) EXCEPT !.mounted = "gone"]
    /\ UNCHANGED <<connFetches, serverSeq, storeVars>>
    /\ UNCHANGED <<schedVars, normVars, routeVars>>

\* ws.onopen of socket i: setIsConnected(true) and the fetch of the current
\* connection status is sent.
SocketOpens(i) ==
    /\ hook.sockets[i].readyState = "connecting"
    /\ Len(connFetches) < MaxInFlight
    /\ hook' = [hook EXCEPT !.sockets[i].readyState = "open",
                            !.isConnected = (hook.mounted = "yes")]
    /\ connFetches' = Append(connFetches, serverSeq)
    /\ UNCHANGED <<serverSeq, storeVars>>
    /\ UNCHANGED <<schedVars, normVars, routeVars>>

\* ws.onclose of socket i, whatever ended it: a failed connection, the
\* server, the transport, or close().
SocketCloses(i) ==
    /\ hook.sockets[i].readyState # "closed"
    /\ \E h \in {[hook EXCEPT !.sockets[i].readyState = "closed",
                              !.isConnected = FALSE,
                              !.wsRef = 0]} :
          hook' = IF hook.sockets[i].enabled
                  THEN [h EXCEPT !.timers = Append(h.timers,
                                               [state |-> "pending",
                                                enabled |-> hook.sockets[i].enabled]),
                                 !.reconnectTimeoutRef = Len(h.timers) + 1]
                  ELSE h
    /\ UNCHANGED <<connFetches, serverSeq, storeVars>>
    /\ UNCHANGED <<schedVars, normVars, routeVars>>

\* The timeout t set by a close handler expires: connect() of its render.
TimerFires(t) ==
    /\ hook.timers[t].state = "pending"
    /\ Creates(hook) => Len(hook.sockets) < MaxSockets
    /\ hook' = connect([hook EXCEPT !.timers[t].state = "fired"], hook.timers[t].enabled)
    /\ UNCHANGED <<connFetches, serverSeq, storeVars>>
    /\ UNCHANGED <<schedVars, normVars, routeVars>>

\* The server publishes its next reading and the open socket i delivers it:
\* ws.onmessage with a connection_status message.
Push(i) ==
    /\ hook.sockets[i].readyState = "open"
    /\ serverSeq < MaxMsgs
    /\ serverSeq' = serverSeq + 1
    /\ ApplyConnectionStatus(Reading(serverSeq + 1))
    /\ UNCHANGED <<hook, connFetches, systemStore, sysFetches>>
    /\ UNCHANGED <<schedVars, normVars, routeVars>>

\* The server publishes its next reading while no socket delivers it.
Publish ==
    /\ serverSeq < MaxMsgs
    /\ \A i \in 1..Len(hook.sockets) : hook.sockets[i].readyState # "open"
    /\ serverSeq' = serverSeq + 1
    /\ UNCHANGED <<hook, connFetches, storeVars>>
    /\ UNCHANGED <<schedVars, normVars, routeVars>>

\* fetchConnectionStatus: the response to the oldest request arrives with the
\* reading n the server knew when it answered, and becomes the store's status.
FetchConnectionStatusDone(n) ==
    /\ connFetches # <<>>
    /\ n >= Head(connFetches)
    /\ connFetches' = Tail(connFetches)
    /\ connectionStore' = [connectionStore EXCEPT !.status = <<Reading(n)>>]
    /\ event' = [type |-> "snapshot", data |-> Reading(n)]
    /\ UNCHANGED <<hook, serverSeq, systemStore, sysFetches>>
    /\ UNCHANGED <<schedVars, normVars, routeVars>>

\* The points a history has received so far.
Received(h) == IF h = <<>> THEN 0 ELSE h[Len(h)].time

Init == SchedInit /\ NormIdle /\ RouteIdle /\ ClientIdle

InitNorm ==
    /\ SchedInit
    /\ nin \in Inputs
    /\ nout = <<>>
    /\ nthrew = FALSE
    /\ RouteIdle
    /\ ClientIdle

NextNorm == Normalize

SpecNorm == InitNorm /\ [][NextNorm]_vars

NextRoute ==
    \E sys \in FetchOutcomes, ver \in FetchOutcomes, raw \in RoutePayloads, version \in Versions :
        GetSystem(sys, ver, raw, version)

SpecRoute == Init /\ [][NextRoute]_vars

\* The stores under messages and polls whose payloads vary.
NextStore ==
    \/ \E d \in SystemMessages :
          Received(systemStore.temperatureHistory) < MaxMsgs /\ OnSystemStatus(d)
    \/ \E st \in ConnectionStatuses :
          Received(connectionStore.history) < MaxMsgs /\ OnConnectionStatus(st)
    \/ Received(systemStore.temperatureHistory) < MaxMsgs /\ FetchSystemInfoStart
    \/ \E o \in {"ok", "failure"}, info \in PollResults : FetchSystemInfoDone(o, info)

SpecStore == Init /\ [][NextStore]_vars

\* The stores under a long run of messages and polls with a steady payload.
NextHistory ==
    \/ Received(systemStore.temperatureHistory) < MaxPoints /\ OnSystemStatus(SteadyMessage)
    \/ Received(connectionStore.history) < MaxPoints /\ OnConnectionStatus(SteadyStatus)
    \/ Received(systemStore.temperatureHistory) < MaxPoints /\ FetchSystemInfoStart
    \/ \E o \in {"ok", "failure"} : FetchSystemInfoDone(o, SteadyPoll)

SpecHistory == Init /\ [][NextHistory]_vars

\* One hook instance from mount to unmount, with its sockets, timers,
\* messages and on-open fetches.
NextHook ==
    \/ \E en \in BOOLEAN : Mount(en)
    \/ SetEnabled
    \/ Unmount
    \/ \E i \in 1..Len(hook.sockets) : SocketOpens(i)
    \/ \E i \in 1..Len(hook.sockets) : SocketCloses(i)
    \/ \E t \in 1..Len(hook.timers) : TimerFires(t)
    \/ \E i \in 1..Len(hook.sockets) : Push(i)
    \/ Publish
    \/ \E n \in 0..serverSeq : FetchConnectionStatusDone(n)

SpecHook == Init /\ [][NextHook]_vars

\* Calls that respect the signature updateSchedule(Partial<RebootSchedule>).
Next ==
    \/ \E p \in TypedBodies, ok \in BOOLEAN : updateSchedule(p, ok)
    \/ \E now \in Instants, o \in RebootOutcomes : Tick(now, o)
    \/ \E point \in CrashPoints, p \in TypedBodies : Crash(p, point)
    \/ Restart

Spec == Init /\ [][Next]_vars

\* Calls through the route, whose body is any JSON value.
NextHttp ==
    \/ \E p \in JsonBodies, ok \in BOOLEAN : updateSchedule(p, ok)
    \/ \E now \in Instants, o \in RebootOutcomes : Tick(now, o)
    \/ \E point \in CrashPoints, p \in JsonBodies : Crash(p, point)
    \/ Restart

SpecHttp == Init /\ [][NextHttp]_vars

(***************************************************************************)
(* Properties of the reboot scheduler.                                     *)
(***************************************************************************)
\* The recurrence rule of s passes validation.
RuleValid(s) == s.time.kind = "string" /\ validate(CronExpression(s))
\* The schedule s asks for a trigger.
WantsTrigger(s) == s.enabled /\ s.days # <<>>
\* t is a string "HH:MM" with HH in 00..23 and MM in 00..59.
WellFormedTime(t) ==
    /\ t.kind = "string"
    /\ LET cs == Chars[t.text]
       IN  /\ Len(cs) = 5
           /\ cs[3] = ":"
           /\ IsNumber(SubSeq(cs, 1, 2)) /\ ToNat(SubSeq(cs, 1, 2)) <= 23
           /\ IsNumber(SubSeq(cs, 4, 5)) /\ ToNat(SubSeq(cs, 4, 5)) <= 59
\* The field f of the record the call merges: the partial's value when it
\* gives one, the value before the call otherwise.
Overridden(before, partial, f) == IF f \in DOMAIN partial THEN partial[f] ELSE before[f]

\* C1: in every reachable state at most one created trigger is started and
\* not stopped, and it is the one the service holds in this.task; no earlier
\* trigger is left running when a new one is created.
C1_AtMostOneActiveTrigger ==
    /\ Len(active) <= 1
    /\ Len(active) = 1 => task = 1
\* A trigger that replaced an earlier one: the call changed the time only,
\* a task existed before it and one exists after it.
C1_Witness ==
    /\ last.op = "update" /\ last.hadTask
    /\ DOMAIN last.partial = {"time"}
    /\ task = 1 /\ Len(active) = 1

\* C2: after updateSchedule returns, a trigger is active only if the merged
\* schedule is enabled with non-empty days; and when it is enabled with
\* non-empty days and its rule is valid, a trigger is active and carries the
\* rule of the merged schedule's own time and days.
C2_TriggerFollowsMergedSchedule ==
    (last.op = "update" /\ ~last.threw) =>
        /\ task # 0 => WantsTrigger(schedule)
        /\ (WantsTrigger(schedule) /\ RuleValid(schedule)) =>
              /\ task # 0
              /\ active[task] = CronExpression(schedule)
              /\ active[task].days = schedule.days
\* A call that moved an active schedule from one time to another.
C2_Witness ==
    /\ last.op = "update" /\ ~last.threw /\ last.hadTask
    /\ DOMAIN last.partial = {"time"} /\ last.partial.time = T0400
    /\ task # 0 /\ active[task].hour = <<"0", "4">>

\* C3: updateSchedule(partial) stores and returns the field-wise override of
\* the current schedule by partial, and getSchedule returns that record.
C3_MergeIsFieldwiseOverride ==
    [][last'.op = "update" =>
          /\ \A f \in Fields : schedule'[f] = Overridden(schedule, last'.partial, f)
          /\ ~last'.threw
          /\ last'.ret = schedule'
          /\ getSchedule' = last'.ret]_vars
\* updateSchedule({time: "04:00"}) after updateSchedule({enabled: true, days: [1, 3]}).
C3_Witness ==
    /\ last.op = "update"
    /\ DOMAIN last.partial = {"time"} /\ last.partial.time = T0400
    /\ last.ret = [enabled |-> TRUE, days |-> <<1, 3>>, time |-> T0400]
    /\ getSchedule = last.ret

\* C4: a call whose merged record has an invalid time (wrong format, hour or
\* minute out of range, not a string) or a rule that fails validation does
\* not throw, persists and returns the merged record, and leaves no trigger.
C4_InvalidTimeIsAcceptedWithoutTrigger ==
    (/\ last.op = "update"
     /\ \/ ~WellFormedTime(schedule.time)
        \/ WantsTrigger(schedule) /\ ~RuleValid(schedule)) =>
        /\ ~last.threw
        /\ last.ret = schedule
        /\ last.writeOk => file = Json(schedule)
        /\ task = 0 /\ active = <<>>

\* C5: a call whose merged record is enabled with days = [] returns the
\* merged record, writes it to the file (when the write goes through) and
\* leaves no active trigger.
C5_EnabledWithoutDays ==
    (last.op = "update" /\ schedule.enabled /\ schedule.days = <<>>) =>
        /\ ~last.threw
        /\ last.ret = schedule
        /\ last.writeOk => file = Json(schedule)
        /\ task = 0 /\ active = <<>>
\* Such a call made while a trigger was active.
C5_Witness ==
    /\ last.op = "update" /\ last.hadTask /\ last.writeOk
    /\ schedule.enabled /\ schedule.days = <<>>
    /\ "days" \in DOMAIN last.partial
    /\ file = Json(schedule) /\ task = 0

C7_FiringKeepsTrigger ==
    [][last'.op = "tick" =>
          /\ last'.fired = IF task # 0 /\ Matches(active[task], last'.now) THEN 1 ELSE 0
          /\ schedule' = schedule /\ file' = file
          /\ task' = task /\ active' = active
          /\ proc' = "running"]_vars
\* A firing whose reboot threw, with the trigger still in place.
C7_Witness ==
    /\ last.op = "tick" /\ last.fired = 1 /\ last.reboot = "thrown"
    /\ task = 1 /\ Len(active) = 1 /\ Matches(active[1], last.now)

\* C8: after a crash inside updateSchedule and a restart, the schedule is the
\* persisted record overlaid on the default (the default when the file is
\* absent or unreadable), and a trigger is active exactly when that schedule
\* is enabled with non-empty days and a valid rule.
C8_RestartLoadsPersisted ==
    last.op = "construct" =>
        /\ proc = "running" /\ ~last.threw
        /\ \A f \in Fields :
              schedule[f] = IF file.kind = "json" /\ f \in DOMAIN file.val
                            THEN file.val[f] ELSE DEFAULT_SCHEDULE[f]
        /\ (task # 0) = (WantsTrigger(schedule) /\ RuleValid(schedule))
        /\ task # 0 => (Len(active) = 1 /\ active[task] = CronExpression(schedule))
        /\ task = 0 => active = <<>>
\* A restart after a crash between the write and the rebuild, which brings
\* the trigger of the persisted schedule up.
C8_Witness ==
    /\ last.op = "construct" /\ last.crashedAt = "after_write"
    /\ file = Json(schedule) /\ schedule.time = T0400
    /\ task = 1

(***************************************************************************)
(* Properties of the telemetry normalizer.                                 *)
(***************************************************************************)
\* The payload is flat, has per-core temperatures and no temp_cpum.
FlatPerCore(x) ==
    /\ ~Has(x, "sensors") /\ ~Has(x, "temp_cpum")
    /\ Present(x, CoreKeys) # <<>>
\* The entries of a sensors array whose id is one of keys, in order.
EntriesOf(sensors, keys) == SelectSeq(sensors, LAMBDA e : e.id \in keys)
CoreSet == {CoreKeys[i] : i \in 1..Len(CoreKeys)}

\* C9: for a flat payload with per-core temperatures and no temp_cpum,
\* normalize returns temp_cpum = the rounded mean of the present per-core
\* values and a sensors array with one entry per present per-core field.
C9_FlatCoresGiveCpum ==
    (Len(nout) >= 1 /\ FlatPerCore(nin)) =>
        /\ Has(nout[1], "temp_cpum")
        /\ nout[1].temp_cpum = RoundDiv(SumSeq(Present(nin, CoreKeys)), Len(Present(nin, CoreKeys)))
        /\ Has(nout[1], "sensors")
        /\ Len(EntriesOf(nout[1].sensors, CoreSet)) = Len(Present(nin, CoreKeys))

\* The keys normalization is about.
ShapeKeys == {"sensors", "fans"} \cup FlatKeys
SameShapes(a, b) ==
    \A k \in ShapeKeys : (Has(a, k) = Has(b, k)) /\ (Has(a, k) => a[k] = b[k])

\* C10: normalize(normalize(x)) has the same sensors, fans and flat legacy
\* fields as normalize(x).
C10_Idempotent == Len(nout) >= 2 => SameShapes(nout[1], nout[2])

\* An entry {id: string, name, value}.
WellFormedEntry(e) == e # NullEntry /\ Has(e, "id") /\ IsString(e.id)
\* The sensors and fans keys of x, when present, hold arrays of such entries.
WellFormedPayload(x) ==
    \A k \in {"sensors", "fans"} :
        Has(x, k) => (IsArray(x, k) /\ \A i \in 1..Len(x[k]) : WellFormedEntry(x[k][i]))
\* The legacy flat fields the id of a sensors entry stands for.
LegacyFieldsOf(id) ==
    (IF StartsWithTemp(id) THEN {id} ELSE {})
    \cup (IF id \in {"t1", "cpu_ap"} THEN {"temp_cpum"} ELSE {})
    \cup (IF id \in {"t2", "cpu_cp"} THEN {"temp_cpub"} ELSE {})
    \cup (IF id \in {"t3", "switch"} THEN {"temp_sw"} ELSE {})
\* x carries temperature data in one of the two shapes.
CarriesTemperature(x) ==
    \/ \E k \in TempKeys : Has(x, k)
    \/ Has(x, "sensors") /\ \E i \in 1..Len(x.sensors) : LegacyFieldsOf(x.sensors[i].id) # {}
\* x carries fan data in one of the two shapes.
CarriesFan(x) == Has(x, "fan_rpm") \/ (Has(x, "fans") /\ Len(x.fans) > 0)
\* The readings of the arrays and flat fields of x.
ArrayValues(x, k) == IF Has(x, k) THEN {x[k][i].value : i \in 1..Len(x[k])} ELSE {}
ReadingsOf(x) ==
    {x[k] : k \in FlatKeys \cap DOMAIN x} \cup ArrayValues(x, "sensors") \cup ArrayValues(x, "fans")
\* The rounded mean of the per-core fields of x (none when x has no core).
CoreMeans(x) ==
    IF Present(x, CoreKeys) = <<>> THEN {}
    ELSE {RoundDiv(SumSeq(Present(x, CoreKeys)), Len(Present(x, CoreKeys)))}

\* C11: when the input carries temperature data in either shape, the output
\* has a non-empty sensors array and the flat fields that correspond to the
\* input's data; likewise a non-empty fans array and fan_rpm when it carries
\* fan data; and every reading in the output is one of the input's readings
\* or the rounded mean of the per-core values.
C11_BothShapesPresent ==
    (Len(nout) >= 1 /\ WellFormedPayload(nin)) =>
        LET out == nout[1]
        IN  /\ CarriesTemperature(nin) =>
                  /\ Has(out, "sensors") /\ Len(out.sensors) > 0
                  /\ \A k \in TempKeys : Has(nin, k) => Has(out, k)
                  /\ Has(nin, "sensors") =>
                        \A i \in 1..Len(nin.sensors) :
                            \A k \in LegacyFieldsOf(nin.sensors[i].id) : Has(out, k)
            /\ CarriesFan(nin) =>
                  /\ Has(out, "fans") /\ Len(out.fans) > 0
                  /\ Has(out, "fan_rpm")
            /\ ReadingsOf(out) \subseteq ReadingsOf(nin) \cup CoreMeans(out)

\* x has source data for the array k in some shape.
SourceData(x, k) ==
    \/ Has(x, k) /\ Len(x[k]) > 0
    \/ k = "sensors" /\ \E f \in TempKeys : Has(x, f)
    \/ k = "fans" /\ Has(x, "fan_rpm")

\* C12: the output never has an empty sensors or fans array: the key is
\* absent when the input has no data for it, and the array has at least one
\* element when the input has source data for it in any shape.
C12_NoEmptyArray ==
    (Len(nout) >= 1 /\ WellFormedPayload(nin)) =>
        \A k \in {"sensors", "fans"} :
            /\ Has(nout[1], k) => Len(nout[1][k]) > 0
            /\ SourceData(nin, k) => Has(nout[1], k)
            /\ ~SourceData(nin, k) => ~Has(nout[1], k)

\* C13: normalize raises no exception, whatever the input: null entries,
\* entries without an id or with a non-string id, a sensors or fans key that
\* is no array; and its result carries none of these malformed parts.
C13_NoExceptionOnMalformed ==
    /\ ~nthrew
    /\ Len(nout) >= 1 => WellFormedPayload(nout[1])

\* C14: for {sensors: [{id: "fan0_speed", name: "", value: 1200}]} normalize
\* returns fan_rpm = 1200 and a fans array whose first entry has the display
\* name of the fan alias table for fan0_speed.
C14_FanAmongSensors ==
    (Len(nout) >= 1 /\ nin = FanAmongSensors) =>
        /\ Has(nout[1], "fan_rpm") /\ nout[1].fan_rpm = 1200
        /\ Has(nout[1], "fans") /\ Len(nout[1].fans) > 0
        /\ nout[1].fans[1].name = FAN_NAMES["fan0_speed"]

\* The payload has a sensors array and no flat temperature field.
ArrayShape(x) ==
    /\ WellFormedPayload(x) /\ Has(x, "sensors")
    /\ \A k \in TempKeys : ~Has(x, k)
\* The ids under which a sensors array gives the main-CPU aggregate.
AggregateIds == {"temp_cpum", "t1", "cpu_ap"}

\* C20: for an array-shape input with per-core CPU sensors and no main-CPU
\* aggregate, temp_cpum is the rounded mean of the per-core values present,
\* whichever cores are missing; without any per-core value it stays absent;
\* and an aggregate the input supplies is kept.
C20_ArrayCoresGiveCpum ==
    (Len(nout) >= 1 /\ ArrayShape(nin)) =>
        LET out == nout[1]
            cores == EntriesOf(nin.sensors, CoreSet)
            aggregates == EntriesOf(nin.sensors, AggregateIds)
        IN  /\ (cores # <<>> /\ aggregates = <<>>) =>
                  /\ \A i \in 1..Len(cores) : Has(out, cores[i].id)
                  /\ Has(out, "temp_cpum") /\ out.temp_cpum \in CoreMeans(out)
            /\ (cores = <<>> /\ aggregates = <<>>) => ~Has(out, "temp_cpum")
            /\ aggregates # <<>> =>
                  /\ Has(out, "temp_cpum")
                  /\ out.temp_cpum \in {aggregates[i].value : i \in 1..Len(aggregates)}

(***************************************************************************)
(* Properties of the telemetry query.                                      *)
(***************************************************************************)
\* C19: whenever the telemetry fetch succeeds, the response of GET
\* /api/system is a success carrying the normalized telemetry (the sensors,
\* fans and flat fields normalize gives for the fetched payload), whether the
\* version fetch succeeded, returned a failure result, or threw.
C19_VersionUnavailableTolerated ==
    (reply.sys = "ok" /\ WellFormedPayload(reply.raw)) =>
        /\ reply.kind = "json" /\ reply.success
        /\ SameShapes(reply.result, normalizeSystemInfo(reply.raw))

(***************************************************************************)
(* Properties of the client stores.                                        *)
(***************************************************************************)
\* "Keep last 60 points"
HistoryCapacity == 60
\* h holds at most 60 points, and they are the last ones it received, in the
\* order it received them.
LastReceivedInOrder(h) ==
    /\ Len(h) = IF Received(h) < HistoryCapacity THEN Received(h) ELSE HistoryCapacity
    /\ \A i \in 1..Len(h) : h[i].time = Received(h) - Len(h) + i

\* C15: after any interleaving of system_status messages, connection_status
\* messages and polls, the temperature history and the connection history
\* each hold at most 60 points, in the order they were appended, and a point
\* appended to a full history removes exactly the oldest one.
C15_HistoryBounded ==
    /\ LastReceivedInOrder(systemStore.temperatureHistory)
    /\ LastReceivedInOrder(connectionStore.history)
\* Both histories are full and have lost their two oldest points, the
\* temperature history last to a poll.
C15_Witness ==
    /\ Len(systemStore.temperatureHistory) = HistoryCapacity
    /\ systemStore.temperatureHistory[1].time = 3
    /\ Len(connectionStore.history) = HistoryCapacity
    /\ connectionStore.history[1].time = 3
    /\ event.type = "fetch_done" /\ event.data # EmptyPayload

\* C16: when a system_status message is applied to a known snapshot, every
\* telemetry field absent from the message keeps its previous value and every
\* field present takes the message's value.
C16_AbsentFieldsRetained ==
    [][(event'.type = "system_status" /\ systemStore.info # NoInfo) =>
          /\ systemStore'.info # NoInfo
          /\ \A k \in SystemKeys :
                Get(systemStore'.info[1], k) =
                    IF Has(event'.data, k) THEN <<event'.data[k]>>
                    ELSE Get(systemStore.info[1], k)]_vars

(***************************************************************************)
(* Properties of the WebSocket hook.                                       *)
(***************************************************************************)
\* The consumer has detached: unmounted, or rendered with enabled = false.
Detached(h) == h.mounted = "gone" \/ (h.mounted = "yes" /\ ~h.enabled)

\* C17: once the consumer has detached, no step creates a WebSocket for it
\* (whichever reconnect timer fires, set before or after the detach) and no
\* message is applied to the stores.
C17_NoActivityAfterDetach ==
    [][Detached(hook') =>
          /\ Len(hook'.sockets) = Len(hook.sockets)
          /\ connectionStore'.history = connectionStore.history]_vars

\* C18: a live update is applied only when the snapshot fetched on attach has
\* been applied (no such fetch is still awaiting its response), and a
\* snapshot response never replaces the store's status by an older reading.
C18_SnapshotBeforeLiveUpdates ==
    [][/\ connectionStore'.history # connectionStore.history => connFetches = <<>>
       /\ (connFetches' # connFetches /\ event'.type = "snapshot"
             /\ connectionStore.status # <<>>) =>
                connectionStore'.status[1].rate_down >= connectionStore.status[1].rate_down]_vars

\* The flat temperature fields in the order the sensors array lists them.
FlatOrder == CoreKeys \o <<"temp_cpum", "temp_cpub", "temp_sw">>

\* C21: without a sensors array, the output's sensors array has exactly one
\* entry per flat temperature field of the input, whichever fields these are
\* (temp_cpu1..3 without temp_cpu0 included), in the order temp_cpu0..3,
\* temp_cpum, temp_cpub, temp_sw, each with the field's id and value.
C21_OneEntryPerFlatField ==
    (Len(nout) >= 1 /\ WellFormedPayload(nin) /\ ~Has(nin, "sensors")
       /\ FlatEntries(nin, FlatOrder) # <<>>) =>
        LET expected == FlatEntries(nin, FlatOrder)
        IN  /\ Has(nout[1], "sensors")
            /\ Len(nout[1].sensors) = Len(expected)
            /\ \A i \in 1..Len(expected) :
                  /\ nout[1].sensors[i].id = expected[i].id
                  /\ nout[1].sensors[i].value = expected[i].value


\* The legacy fields the input gives a value to, in either shape.
InputFields(x) ==
    (FlatKeys \cap DOMAIN x)
    \cup (IF Has(x, "sensors")
          THEN UNION {LegacyFieldsOf(x.sensors[i].id) : i \in 1..Len(x.sensors)}
          ELSE {})
\* The ids of the per-core fields.
CoreIds == {CoreKeys[i] : i \in 1..Len(CoreKeys)}
\* The per-core values of x that are numbers.
NumericCores(x) == SelectSeq(Present(x, CoreKeys), IsNumeric)
\* Some per-core value of the input is not a number.
NonNumericCore(x) ==
    \/ \E k \in CoreIds \cap DOMAIN x : ~IsNumeric(x[k])
    \/ Has(x, "sensors") /\ \E i \in 1..Len(x.sensors) :
          x.sensors[i].id \in CoreIds /\ ~IsNumeric(x.sensors[i].value)

\* C22: a non-numeric value is copied to the output unchanged, in the flat
\* fields and in the sensors array, and takes no part in the main-CPU mean:
\* when the input has no aggregate of its own, the output's temp_cpum is the
\* rounded mean of the numeric per-core values, and is absent when no per-core
\* value is numeric.
C22_NonNumericExcludedFromMean ==
    (Len(nout) >= 1 /\ WellFormedPayload(nin) /\ NonNumericCore(nin)) =>
        /\ \A k \in FlatKeys \cap DOMAIN nin :
              ~Has(nin, "sensors") => nout[1][k] = nin[k]
        /\ Has(nin, "sensors") =>
              \A i \in 1..Len(nin.sensors) :
                  /\ nout[1].sensors[i].value = nin.sensors[i].value
                  /\ \A f \in LegacyFieldsOf(nin.sensors[i].id) :
                        nout[1][f] = nin.sensors[i].value
        /\ "temp_cpum" \notin InputFields(nin) =>
              IF NumericCores(nout[1]) = <<>>
              THEN ~Has(nout[1], "temp_cpum")
              ELSE Has(nout[1], "temp_cpum") =>
                      nout[1].temp_cpum =
                          RoundDiv(SumSeq(NumericCores(nout[1])), Len(NumericCores(nout[1])))


\* The last point of the temperature history.
LastPoint == systemStore.temperatureHistory[Len(systemStore.temperatureHistory)]

\* C23: the point appended for a system_status message has as main-CPU value
\* the message's temp_cpum when that field is present, and the rounded mean
\* of the available per-core values only when temp_cpum is absent.
C23_PushPrefersAggregate ==
    event.type = "system_status" =>
        /\ systemStore.temperatureHistory # <<>>
        /\ Get(LastPoint, "cpuM") =
              IF Has(event.data, "temp_cpum") THEN <<event.data.temp_cpum>>
              ELSE CoreMean(event.data)


\* The sockets of the hook instance that are connecting or open.
LiveSockets == {i \in 1..Len(hook.sockets) : hook.sockets[i].readyState \in Live}

\* C25: one hook instance has at most one WebSocket that is connecting or
\* open at any time, whatever the interleaving of connect, disconnect,
\* enable/disable toggles, late close events of earlier sockets and reconnect
\* timers, so that no published message is delivered by two sockets.
C25_AtMostOneLiveSocket == Cardinality(LiveSockets) <= 1


\* The hook under a fair timer: a pending timeout that can run its callback
\* does run it (the browser fires a due setTimeout).
SpecHookFair == SpecHook /\ WF_vars(\E t \in 1..Len(hook.timers) : TimerFires(t))

\* The consumer is attached: mounted and rendered with enabled = true.
Attached(h) == h.mounted = "yes" /\ h.enabled
\* The reconnects that are pending.
PendingTimers == {t \in 1..Len(hook.timers) : hook.timers[t].state = "pending"}
\* The attached consumer has lost its connection and may open another.
Disconnected ==
    Attached(hook) /\ ~RefIsLive(hook) /\ Len(hook.sockets) < MaxSockets

\* C24: while the consumer stays attached, every close of its connection is
\* eventually followed by a new connection attempt, and at most one reconnect
\* is pending for the consumer at any time.
C24_ReconnectsWithoutAccumulating ==
    /\ [](Attached(hook) => Cardinality(PendingTimers) <= 1)
    /\ Disconnected ~> (RefIsLive(hook) \/ ~Attached(hook))


\* C26: for the same normalized record, the history point the polling path
\* appends has the main-CPU, CPU-box and switch values of the point the push
\* path derives from that record.
C26_PollPointIsPushPoint ==
    (event.type = "fetch_done" /\ event.data # EmptyPayload) =>
        /\ systemStore.temperatureHistory # <<>>
        /\ \A k \in {"cpuM", "cpuB", "sw"} :
              Get(LastPoint, k) = Get(PushPoint(event.data, LastPoint.time), k)

====
